---- MODULE Spec2Model ----
(***************************************************************************)
(* State-machine model of the idobata SNS agent: the poll loop of          *)
(* main.py, the dedup ledger of utils/file_utils.py and the reply strategy *)
(* selection of llm/api.py.                                                *)
(*                                                                         *)
(* Python strings are sequences of one-character strings, so that strip,   *)
(* startswith and the regular expressions are computed, not assumed.       *)
(* A file is a record [exists, lines]; every line ends with "\n".          *)
(***************************************************************************)
EXTENDS Integers, Sequences, FiniteSets, TLC

\* ------------------------------------------------------------------ bounds
MaxCycles == 2      \* polling cycles explored
MaxTweets == 2      \* length of one search result
MaxItems == 4       \* comments plus stances in one add-comment response
MaxCtx == 6         \* longest context handed to generate_reply directly
MaxCrashes == 1     \* process restarts explored
MaxUpstream == 3    \* tweets in one answer of the filtered conversation search
MaxCap == 2         \* largest max_tweets handed to fetch_conversation_history directly
MaxExcess == 4      \* characters by which a text passes TWITTER_CHAR_LIMIT

\* ------------------------------------------------------------- config.py
VARIABLES
    TARGET_USERNAME,       \* the username of the bot, NoneStr when not set
    DEFAULT_PROJECT_ID     \* the project of the deliberation backend

\* ------------------------------------------------------- Python-level values
None == <<"None">>              \* Python None where a text is expected
NoneStr == "<None>"             \* Python None where an identifier is expected
IsFalsy(x) == x = NoneStr \/ x = ""

SeqsUpTo(S, n) == UNION {[1..k -> S] : k \in 0..n}

\* A JSON object is a function from its keys to their values.
EmptyDict == [k \in {} |-> ""]
Has(d, k) == k \in DOMAIN d
Put(d, k, v) == (k :> v) @@ d                               \* d[k] = v
Get(d, k, default) == IF Has(d, k) THEN d[k] ELSE default   \* d.get(k, default)

\* --------------------------------------------------------- utils/file_utils
NL == "\n"
IsSpace(c) == c = " " \/ c = NL

RECURSIVE lstrip(_)
lstrip(s) == IF s # <<>> /\ IsSpace(Head(s)) THEN lstrip(Tail(s)) ELSE s

RECURSIVE rstrip(_)
rstrip(s) == IF s # <<>> /\ IsSpace(s[Len(s)]) THEN rstrip(SubSeq(s, 1, Len(s) - 1)) ELSE s

strip(s) == rstrip(lstrip(s))

\* line.strip() and not line.strip().startswith("#")
IsIdLine(line) == strip(line) # <<>> /\ Head(strip(line)) # "#"

RECURSIVE id_lines(_)
id_lines(lines) ==
    IF lines = <<>> THEN <<>>
    ELSE IF IsIdLine(Head(lines)) THEN <<strip(Head(lines))>> \o id_lines(Tail(lines))
    ELSE id_lines(Tail(lines))

NoFile == [exists |-> FALSE, lines |-> <<>>]

TargetHeader == << <<"#", "t", "1", NL>>, <<"#", "t", "2", NL>>, <<"#", " ", "1", NL>>, <<"#", " ", "9", NL>> >>
RepliedHeader == << <<"#", "r", "1", NL>>, <<"#", "r", "2", NL>> >>

read_target_tweet_ids(file) == IF file.exists THEN id_lines(file.lines) ELSE <<>>

create_empty_target_file_if_not_exists(file) ==
    IF ~file.exists THEN [exists |-> TRUE, lines |-> TargetHeader] ELSE file

create_replied_truncating(file) == [exists |-> TRUE, lines |-> RepliedHeader]

create_replied_tweets_file_if_not_exists(file) ==
    IF ~file.exists THEN [exists |-> TRUE, lines |-> RepliedHeader] ELSE file

Range(s) == {s[i] : i \in DOMAIN s}

read_replied_every_line(file) ==
    IF file.exists THEN {strip(file.lines[i]) : i \in DOMAIN file.lines} ELSE {}

read_replied_tweet_ids(file) == IF file.exists THEN Range(id_lines(file.lines)) ELSE {}

add_replied_tweet_id_unwritten(file, tweet_id) ==
    create_replied_tweets_file_if_not_exists(file)

add_replied_tweet_id(file, tweet_id) ==
    LET f == create_replied_tweets_file_if_not_exists(file)
    IN  [f EXCEPT !.lines = Append(@, tweet_id \o <<NL>>)]

\* ------------------------------------------------------------ twitter/api
OrSep == <<" OR ">>

RECURSIVE join_or(_)
join_or(parts) ==
    IF parts = <<>> THEN <<>>
    ELSE IF Len(parts) = 1 THEN <<Head(parts)>>
    ELSE <<Head(parts), OrSep>> \o join_or(Tail(parts))

build_search_query_ids_only(username, tweet_ids) ==
    join_or([i \in 1..Len(tweet_ids) |-> <<"in_reply_to_tweet_id:", tweet_ids[i]>>])

build_search_query(username, tweet_ids) ==
    LET user_part == IF ~IsFalsy(username) THEN << <<"to:", username>> >> ELSE <<>>
        id_parts == [i \in 1..Len(tweet_ids) |-> <<"in_reply_to_tweet_id:", tweet_ids[i]>>]
    IN  join_or(user_part \o id_parts)

\* reply_to_tweet returns True exactly on HTTP 201
reply_to_tweet(status_code) == status_code = 201

\* ---- fetch_conversation_history
Front(s) == SubSeq(s, 1, Len(s) - 1)
Last(s) == s[Len(s)]

\* list.sort(key=created_at) is stable: an element goes behind all elements
\* whose key is not greater
RECURSIVE insert_sorted(_, _)
insert_sorted(sorted, t) ==
    IF sorted = <<>> \/ Last(sorted).created_at <= t.created_at
    THEN Append(sorted, t)
    ELSE Append(insert_sorted(Front(sorted), t), Last(sorted))

RECURSIVE sort_by_created_at(_)
sort_by_created_at(tweets) ==
    IF tweets = <<>> THEN <<>>
    ELSE insert_sorted(sort_by_created_at(Front(tweets)), Last(tweets))

\* lines 203-213: id, username (from the users of the response), text, created_at
format_tweets(tweets, users) ==
    [i \in DOMAIN tweets |-> [id |-> tweets[i].id,
                              username |-> Get(users, tweets[i].author_id, "Unknown"),
                              text |-> tweets[i].text,
                              created_at |-> tweets[i].created_at]]

keep_current_tweet(formatted_tweets, tweet_id) == formatted_tweets

\* [t for t in formatted_tweets if t["id"] != tweet_id]
remove_current_tweet(formatted_tweets, tweet_id) ==
    SelectSeq(formatted_tweets, LAMBDA t : t.id # tweet_id)

cap_to_earliest(formatted_tweets, max_tweets) ==
    IF Len(formatted_tweets) > max_tweets
    THEN SubSeq(formatted_tweets, 1, max_tweets)
    ELSE formatted_tweets

\* formatted_tweets[-max_tweets:] when longer than max_tweets; the slice
\* [-0:] is the whole list
cap_to_latest(formatted_tweets, max_tweets) ==
    IF Len(formatted_tweets) > max_tweets
    THEN IF max_tweets = 0 THEN formatted_tweets
         ELSE SubSeq(formatted_tweets, Len(formatted_tweets) - max_tweets + 1,
                     Len(formatted_tweets))
    ELSE formatted_tweets

\* lines 154-165: "from:" terms for the author of the current tweet and, when
\* it is another name, for the author of the oldest tweet.  A text built by
\* an f-string is the sequence of its pieces.
author_filter(current_author_username, original_author_username) ==
    LET current == IF IsFalsy(current_author_username) THEN <<>>
                   ELSE <<"from:", current_author_username>>
    IN  IF ~IsFalsy(original_author_username)
           /\ original_author_username # current_author_username
        THEN IF current # <<>>
             THEN current \o <<" OR from:", original_author_username>>
             ELSE <<"from:", original_author_username>>
        ELSE current

\* lines 102-103 and 129-176: the query of the filtered search, from the
\* answer of the conversation search
filtered_query(conversation_id, all_tweets, users, tweet_author_id) ==
    LET current_author_id == tweet_author_id
        \* set in the loop over the users when user["id"] == current_author_id
        current_author_username ==
            IF Has(users, current_author_id) THEN users[current_author_id] ELSE NoneStr
        oldest == sort_by_created_at(all_tweets)
        original_author_username ==
            IF all_tweets # <<>> THEN Get(users, oldest[1].author_id, "Unknown") ELSE NoneStr
        filter == author_filter(current_author_username, original_author_username)
    IN  <<"conversation_id:", conversation_id>>
        \o (IF filter # <<>> THEN <<" (">> \o filter \o <<")">> ELSE <<>>)

\* The search endpoint: of the tweets of the conversation, those of an author
\* named by a "from:" term of the query, all of them when the query has none.
search_recent(tweets, users, q) ==
    LET names == {q[i + 1] : i \in {j \in 1..(Len(q) - 1) : q[j] \in {"from:", " OR from:"}}}
    IN  IF names = {} THEN tweets
        ELSE SelectSeq(tweets, LAMBDA t : Get(users, t.author_id, NoneStr) \in names)

\* The value returned, whether an exception left the function, the number of
\* requests sent and the query of the filtered search (<<>> when not built).
HistResult(ret, raised, requests, q) ==
    [ret |-> ret, raised |-> raised, requests |-> requests, query |-> q]

no_history_raises(requests, q) == HistResult(<<>>, TRUE, requests, q)

\* lines 94-96, 105-107, 121-123, 190-192: print(...) and return []
no_history(requests, q) == HistResult(<<>>, FALSE, requests, q)

\* upstream: what the tweet lookup answers, the status of the two searches
\* and the tweets of the conversation they search; raise_at = k makes the
\* k-th request raise
fetch_conversation_history(upstream, tweet_id, max_tweets, tweet_author_id) ==
    IF upstream.raise_at = 1 THEN HistResult(<<>>, TRUE, 1, <<>>)
    ELSE IF upstream.lookup_status # 200 THEN no_history(1, <<>>)
    ELSE IF IsFalsy(upstream.conversation_id) THEN no_history(1, <<>>)
    ELSE IF upstream.raise_at = 2 THEN HistResult(<<>>, TRUE, 2, <<>>)
    ELSE IF upstream.conversation_status # 200 THEN no_history(2, <<>>)
    ELSE LET q == filtered_query(upstream.conversation_id, upstream.tweets,
                                 upstream.users, tweet_author_id)
         IN  IF upstream.raise_at = 3 THEN HistResult(<<>>, TRUE, 3, q)
             ELSE IF upstream.filtered_status # 200 THEN no_history(3, q)
             ELSE LET tweets == search_recent(upstream.tweets, upstream.users, q)
                      formatted_tweets == format_tweets(tweets, upstream.users)
                      sorted == sort_by_created_at(formatted_tweets)
                      others == remove_current_tweet(sorted, tweet_id)
                  IN  HistResult(cap_to_latest(others, max_tweets), FALSE, 3, q)

\* ----------------------------------------------------------- twitter/auth
\* TOKEN_FILE: absent, or holding one JSON object
NoTokenFile == [exists |-> FALSE, data |-> EmptyDict]
TokenFileOf(d) == [exists |-> TRUE, data |-> d]

\* load_token: the stored object, or None (the empty object stands for None:
\* "if tokens" treats both alike)
load_token(file) == IF file.exists THEN file.data ELSE EmptyDict

\* What one call of get_valid_token did: the value returned, whether it
\* raised, the token file afterwards, the requests sent to TWITTER_TOKEN_URL
\* and the branch of get_valid_token taken.
AuthResult(ret, raised, file, calls, branch) ==
    [ret |-> ret, raised |-> raised, file |-> file, calls |-> calls, branch |-> branch]

TokenCall(grant_type, arg, answer) == [grant_type |-> grant_type, arg |-> arg, answer |-> answer]

rejected_record_written(file, resp) == TokenFileOf(resp)

\* else: raise Exception(...): nothing is written
rejected_record(file, resp) == file

token_record_merged(old, resp) == resp @@ old

\* open(TOKEN_FILE, 'w'); json.dump(resp, f): the object written replaces the file
token_record_written(old, resp) == resp

refresh_token_dropped(resp, refresh_token) == Get(resp, "refresh_token", NoneStr)

\* resp.get('refresh_token', refresh_token)
kept_refresh_token(resp, refresh_token) == Get(resp, "refresh_token", refresh_token)

\* initial_auth from the POST to the token endpoint on (lines 62-72); the
\* request may raise, as may resp['expires_in'] when the key is missing
initial_auth(file, time_now, answer) ==
    LET call == TokenCall("authorization_code", "code", answer)
        resp == answer.body
    IN  IF answer.raise \/ (Has(resp, "access_token") /\ ~Has(resp, "expires_in"))
        THEN AuthResult(NoneStr, TRUE, file, <<call>>, "initial")
        ELSE IF Has(resp, "access_token")
        THEN LET stored == Put(resp, "expires_at", time_now + resp["expires_in"])
             IN  AuthResult(stored["access_token"], FALSE,
                            TokenFileOf(token_record_written(file.data, stored)),
                            <<call>>, "initial")
        ELSE AuthResult(NoneStr, TRUE, rejected_record(file, resp), <<call>>, "initial")

refresh_access_token(refresh_token, file, time_now, answer) ==
    LET call == TokenCall("refresh_token", refresh_token, answer)
        resp == answer.body
    IN  IF answer.raise \/ (Has(resp, "access_token") /\ ~Has(resp, "expires_in"))
        THEN AuthResult(NoneStr, TRUE, file, <<call>>, "refresh")
        ELSE IF Has(resp, "access_token")
        THEN LET timed == Put(resp, "expires_at", time_now + resp["expires_in"])
                 stored == Put(timed, "refresh_token", kept_refresh_token(resp, refresh_token))
             IN  AuthResult(stored["access_token"], FALSE,
                            TokenFileOf(token_record_written(file.data, stored)),
                            <<call>>, "refresh")
        ELSE AuthResult(NoneStr, TRUE, rejected_record(file, resp), <<call>>, "refresh")

EXPIRY_MARGIN == 60

token_still_valid_inclusive(tokens, time_now) == tokens["expires_at"] >= time_now + EXPIRY_MARGIN

\* tokens['expires_at'] > int(time.time()) + 60
token_still_valid(tokens, time_now) == tokens["expires_at"] > time_now + EXPIRY_MARGIN

\* tokens['refresh_token'] raises KeyError when the stored object has none
get_valid_token(file, time_now, answer) ==
    LET tokens == load_token(file)
    IN  IF tokens # EmptyDict
        THEN IF token_still_valid(tokens, time_now)
             THEN AuthResult(tokens["access_token"], FALSE, file, <<>>, "cached")
             ELSE IF Has(tokens, "refresh_token")
                  THEN refresh_access_token(tokens["refresh_token"], file, time_now, answer)
                  ELSE AuthResult(NoneStr, TRUE, file, <<>>, "refresh")
        ELSE initial_auth(file, time_now, answer)

\* ---------------------------------------------------------------- llm/api
HexDigits == {"0", "1", "2", "3", "4", "5", "6", "7", "8", "9", "a", "b", "c", "d", "e", "f"}
QuestionScheme == <<"q", "u", "e", "s", "t", "i", "o", "n", ":", "/", "/">>
DELIB_ANALYTICS_URL == <<"U", "?", "q", "=">>

IsHexRun(s, from, n) == \A i \in from..(from + n - 1) : s[i] \in HexDigits

\* [0-9a-f]{8}-[0-9a-f]{4}-[0-9a-f]{4}-[0-9a-f]{4}-[0-9a-f]{12} starting at p
MatchUuidAt(s, p) ==
    /\ p + 35 <= Len(s)
    /\ IsHexRun(s, p, 8) /\ s[p + 8] = "-"
    /\ IsHexRun(s, p + 9, 4) /\ s[p + 13] = "-"
    /\ IsHexRun(s, p + 14, 4) /\ s[p + 18] = "-"
    /\ IsHexRun(s, p + 19, 4) /\ s[p + 23] = "-"
    /\ IsHexRun(s, p + 24, 12)

MatchQuestionAt(s, i) ==
    /\ i + 10 <= Len(s)
    /\ s[i] = QuestionScheme[1]
    /\ SubSeq(s, i, i + 10) = QuestionScheme
    /\ MatchUuidAt(s, i + 11)

RECURSIVE convert_from(_, _)
convert_from(s, i) ==
    LET matches == {p \in i..Len(s) : MatchQuestionAt(s, p)}
        m == CHOOSE p \in matches : \A q \in matches : p <= q     \* the leftmost
    IN  IF matches = {} THEN SubSeq(s, i, Len(s))
        ELSE SubSeq(s, i, m - 1) \o DELIB_ANALYTICS_URL \o SubSeq(s, m + 11, m + 46)
                 \o convert_from(s, m + 47)

keep_question_urls(text) == text

\* re.sub(pattern, lambda m: DELIB_ANALYTICS_URL + m.group(1), text)
convert_question_urls(text) == convert_from(text, 1)

\* One upstream call as generate_reply saw it: which API, with which
\* argument, whether it raised, and the response received.
Call(api, arg, raised, resp) == [api |-> api, arg |-> arg, raised |-> raised, resp |-> resp]

\* Result of a (sub)call: the value returned, whether an exception left the
\* function, the upstream calls made, in order, and the selection logged at
\* "STEP 3: Determining reply strategy" (NoSel when that step was not reached).
NoSel == [has_stances |-> FALSE, question_id |-> "<unset>"]
ResultSel(ret, raised, calls, sel) == [ret |-> ret, raised |-> raised, calls |-> calls, sel |-> sel]
Result(ret, raised, calls) == ResultSel(ret, raised, calls, NoSel)

\* client.chat.completions.create(model, messages) followed by
\* convert_question_urls; the call is logged with the messages it sent
Completion(strategy, messages, env) ==
    IF env.llm.raise
    THEN Result(None, TRUE,
                <<Call("completion", strategy, TRUE, None) @@ ("messages" :> messages)>>)
    ELSE Result(convert_question_urls(env.llm.text), FALSE,
                <<Call("completion", strategy, FALSE, env.llm.text)
                  @@ ("messages" :> messages)>>)

role_always_user(tweet) == "user"

\* "user" if tweet.get("username") != TARGET_USERNAME else "assistant"
role_of(tweet) == IF tweet.username # TARGET_USERNAME THEN "user" ELSE "assistant"

\* messages: the system prompt, one turn per tweet of the history ("if
\* conversation_history" adds none for an empty one), the closing user turn
chat_messages(system_prompt, conversation_history, last_content) ==
    <<[role |-> "system", content |-> system_prompt]>>
    \o [i \in DOMAIN conversation_history |->
           [role |-> role_of(conversation_history[i]),
            content |-> conversation_history[i].text]]
    \o <<[role |-> "user", content |-> last_content]>>

\* The fixed texts of the prompts are named, not spelled out.
generate_reply_with_stance_analysis(user_text, stance_report, conversation_history, env) ==
    LET system_prompt ==
            <<"stance bot prompt">>
            \o (IF IsFalsy(stance_report) THEN <<>> ELSE <<stance_report>>)
            \o <<"stance instructions">>
    IN  Completion("stance", chat_messages(system_prompt, conversation_history, user_text), env)

generate_reply_with_project_report(user_text, project_report, conversation_history, env) ==
    LET system_prompt ==
            <<"project bot prompt">>
            \o (IF IsFalsy(project_report) THEN <<>> ELSE <<project_report>>)
            \o <<"project instructions">>
    IN  Completion("project", chat_messages(system_prompt, conversation_history, user_text), env)

\* line 330: the closing user turn of the continuation strategy
CONTINUATION_REQUEST ==
    <<"Based on our conversation, suggest continuing this discussion at https://idobata.io/">>

generate_continuation_message(conversation_history, env) ==
    LET str == <<"1", "2", "3", "4", "5", "6", "7", "8", "9">>
        system_prompt ==
            <<"The conversation has become quite long with ",
              str[Len(conversation_history)], " messages.", "continuation instructions">>
    IN  Completion("continuation",
                   chat_messages(system_prompt, conversation_history, CONTINUATION_REQUEST), env)

CONTINUATION_THRESHOLD == 5

use_continuation_above(conversation_history) ==
    conversation_history # <<>> /\ Len(conversation_history) > CONTINUATION_THRESHOLD

\* if conversation_history and len(conversation_history) >= 5
use_continuation(conversation_history) ==
    conversation_history # <<>> /\ Len(conversation_history) >= CONTINUATION_THRESHOLD

valid_stances_unfiltered(stances) == stances

\* [s for s in stances if s.get("stanceId") != "neutral"]
valid_stances(stances) == SelectSeq(stances, LAMBDA s : s.stanceId # "neutral")

RECURSIVE scan_stances_last(_)
scan_stances_last(comments) ==
    IF comments = <<>> THEN [has_stances |-> FALSE, question_id |-> NoneStr]
    ELSE LET valid == valid_stances(Head(comments).stances)
         IN  IF valid # <<>>
             THEN [has_stances |-> TRUE, question_id |-> valid[Len(valid)].questionId]
             ELSE scan_stances_last(Tail(comments))

\* the loop "for comment in comments" with its break
RECURSIVE scan_stances(_)
scan_stances(comments) ==
    IF comments = <<>> THEN [has_stances |-> FALSE, question_id |-> NoneStr]
    ELSE LET valid == valid_stances(Head(comments).stances)
         IN  IF valid # <<>>
             THEN [has_stances |-> TRUE, question_id |-> valid[1].questionId]
             ELSE scan_stances(Tail(comments))

use_stance_branch_any_stance(sel) == sel.has_stances

\* if has_stances and question_id
use_stance_branch(sel) == sel.has_stances /\ ~IsFalsy(sel.question_id)

\* Case 2: get_project_analysis_report, then generate_reply_with_project_report
project_branch(user_text, conversation_history, project_id, env, before) ==
    LET fetch == Call("project_report", project_id, env.project.raise, env.project.report)
    IN  IF env.project.raise
        THEN Result(None, TRUE, before \o <<fetch>>)
        ELSE LET g == generate_reply_with_project_report(user_text, env.project.report,
                                                         conversation_history, env)
             IN  Result(g.ret, g.raised, before \o <<fetch>> \o g.calls)

stance_branch_with_fallback(user_text, conversation_history, project_id, question_id, env, before) ==
    LET fetch == Call("stance_report", question_id, env.stance.raise, env.stance.report)
    IN  IF env.stance.raise
        THEN project_branch(user_text, conversation_history, project_id, env, before \o <<fetch>>)
        ELSE LET g == generate_reply_with_stance_analysis(user_text, env.stance.report,
                                                          conversation_history, env)
             IN  IF g.raised
                 THEN project_branch(user_text, conversation_history, project_id, env,
                                     before \o <<fetch>> \o g.calls)
                 ELSE Result(g.ret, g.raised, before \o <<fetch>> \o g.calls)

\* Case 1: get_stance_analysis_report, then generate_reply_with_stance_analysis
stance_branch(user_text, conversation_history, project_id, question_id, env, before) ==
    LET fetch == Call("stance_report", question_id, env.stance.raise, env.stance.report)
    IN  IF env.stance.raise
        THEN Result(None, TRUE, before \o <<fetch>>)
        ELSE LET g == generate_reply_with_stance_analysis(user_text, env.stance.report,
                                                          conversation_history, env)
             IN  Result(g.ret, g.raised, before \o <<fetch>> \o g.calls)

\* the body of the try block of generate_reply
try_body(user_text, conversation_history, project_id, env) ==
    LET add == Call("add_comment", project_id, env.comment.raise, env.comment.comments)
    IN  IF env.comment.raise
        THEN Result(None, TRUE, <<add>>)
        ELSE LET sel == scan_stances(env.comment.comments)
                 r == IF use_stance_branch(sel)
                      THEN stance_branch(user_text, conversation_history, project_id,
                                         sel.question_id, env, <<add>>)
                      ELSE project_branch(user_text, conversation_history, project_id,
                                          env, <<add>>)
             IN  ResultSel(r.ret, r.raised, r.calls, sel)

\* except Exception: ... return None
except_return_none(r) == IF r.raised THEN ResultSel(None, FALSE, r.calls, r.sel) ELSE r

generate_reply(user_text, conversation_history, project_id, env) ==
    IF use_continuation(conversation_history)
    THEN generate_continuation_message(conversation_history, env)
    ELSE IF IsFalsy(project_id)
         THEN Result(None, FALSE, <<>>)
         ELSE except_return_none(try_body(user_text, conversation_history, project_id, env))

\* -------------------------------------------- main.py: the text of a reply
\* \w over the characters of the texts explored
IsWord(c) == c \in {"a", "b", "l", "o", "x", "2", "_"}

\* where the longest run of characters of one class starting at i ends: the
\* position after it (a greedy \s*, \w+, \S+)
RunEnd(s, i, InClass(_)) ==
    CHOOSE j \in i..(Len(s) + 1) :
        /\ \A k \in i..(j - 1) : InClass(s[k])
        /\ j = Len(s) + 1 \/ ~InClass(s[j])

keep_mention_prefix(reply_text) == reply_text

\* main.py: re.sub(r"^\s*@\w+\s+", "", reply_text); None for None
remove_mention_prefix(reply_text) ==
    IF reply_text = None THEN None
    ELSE LET at == RunEnd(reply_text, 1, IsSpace)
             name_end == RunEnd(reply_text, at + 1, IsWord)
             rest == RunEnd(reply_text, name_end, IsSpace)
         IN  IF /\ at <= Len(reply_text) /\ reply_text[at] = "@"
                /\ name_end > at + 1
                /\ rest > name_end
             THEN SubSeq(reply_text, rest, Len(reply_text))
             ELSE reply_text

\* chat_client/api.py: re.sub(r'^@\S+\s*', '', text)
chat_client_remove_mention_prefix(text) ==
    LET name_end == RunEnd(text, 2, LAMBDA c : ~IsSpace(c))
    IN  IF text # <<>> /\ text[1] = "@" /\ name_end > 2
        THEN SubSeq(text, RunEnd(text, name_end, IsSpace), Len(text))
        ELSE text

TWITTER_CHAR_LIMIT == 280

truncate_without_ellipsis(reply_text) ==
    IF reply_text = None THEN None
    ELSE IF Len(reply_text) <= TWITTER_CHAR_LIMIT THEN reply_text
    ELSE SubSeq(reply_text, 1, TWITTER_CHAR_LIMIT)

\* reply_text[:TWITTER_CHAR_LIMIT - 3] + "..." when longer than the limit
truncate_reply_if_needed(reply_text) ==
    IF reply_text = None THEN None
    ELSE IF Len(reply_text) <= TWITTER_CHAR_LIMIT THEN reply_text
    ELSE SubSeq(reply_text, 1, TWITTER_CHAR_LIMIT - 3) \o <<".", ".", ".">>

\* ------------------------------------------------------- upstream responses
\* Stances the deliberation backend may attach to a comment.  questionId
\* NoneStr is a stance without the key (stance.get("questionId") is None).
StanceValues == {
    [stanceId |-> "neutral",  questionId |-> "q1",    confidence |-> 9],
    [stanceId |-> "agree",    questionId |-> "q1",    confidence |-> 1],
    [stanceId |-> "disagree", questionId |-> "q2",    confidence |-> 9],
    [stanceId |-> "agree",    questionId |-> NoneStr, confidence |-> 5],
    [stanceId |-> "agree",    questionId |-> "",      confidence |-> 5] }

\* A response body is enumerated as a flat list of items: "comment" opens a
\* new comment, a stance is attached to the comment opened last.
NewComment == [stanceId |-> "<comment>", questionId |-> "", confidence |-> 0]

RECURSIVE comments_of(_)
comments_of(items) ==
    IF items = <<>> THEN <<>>
    ELSE LET rest == comments_of(SubSeq(items, 1, Len(items) - 1))
             last == items[Len(items)]
         IN  IF last = NewComment
             THEN Append(rest, [stances |-> <<>>])
             ELSE [rest EXCEPT ![Len(rest)].stances = Append(@, last)]

CommentLists(n) ==
    {comments_of(items) : items \in {t \in SeqsUpTo(StanceValues \cup {NewComment}, n) :
                                        t = <<>> \/ t[1] = NewComment}}

Hi == <<"h", "i">>
Uuid == <<"0", "1", "2", "3", "4", "5", "6", "7", "-", "8", "9", "a", "b", "-",
          "c", "d", "e", "f", "-", "0", "1", "2", "3", "-",
          "4", "5", "6", "7", "8", "9", "a", "b", "c", "d", "e", "f">>
SeeQuestion == <<"s", "e", "e", " ">> \o QuestionScheme \o Uuid

Ok(field, value) == [raise |-> FALSE] @@ (field :> value)
Raised(field, value) == [raise |-> TRUE] @@ (field :> value)

\* What the four upstream services answer during one generate_reply call.
Envs(comment_lists, texts) ==
    [comment : {Raised("comments", <<>>)} \cup {Ok("comments", c) : c \in comment_lists},
     stance  : {Raised("report", "")} \cup {Ok("report", "stance-report")},
     project : {Raised("report", "")} \cup {Ok("report", "project-report")},
     llm     : {Raised("text", None)} \cup {Ok("text", t) : t \in texts}]

\* Texts of the completion API as lists of pieces: plain text, a question://
\* token with a UUID, and tokens whose UUID is a digit short or holds a
\* capital.
LlmPieces ==
    LET Piece(kind, text) == [kind |-> kind, text |-> text]
        Token == Piece("token", QuestionScheme \o Uuid)
        ShortToken == Piece("other", QuestionScheme \o SubSeq(Uuid, 1, 35))
        CapitalToken == Piece("other", QuestionScheme \o <<"A">> \o SubSeq(Uuid, 2, 36))
        Blank == Piece("other", <<" ">>)
    IN  { <<Piece("other", Hi)>>,
          <<Piece("other", <<"s", "e", "e", " ">>), Token>>,
          <<Piece("other", <<"s", "e", "e", " ">>), ShortToken>>,
          <<ShortToken, Token, Piece("other", <<"a", "b">>)>>,
          <<Token, Blank, CapitalToken, Blank, Token>> }

RECURSIVE TextOf(_)
TextOf(pieces) ==
    IF pieces = <<>> THEN <<>> ELSE pieces[1].text \o TextOf(Tail(pieces))

\* no comment, a comment without stance, a comment with one stance on q1
FewCommentLists ==
    {<<>>, comments_of(<<NewComment>>)}
    \cup {comments_of(<<NewComment, s>>) : s \in {x \in StanceValues : x.questionId = "q1"}}

\* every comment list with two texts, and every text with a few comment lists
GenEnvs ==
    Envs(CommentLists(MaxItems), {Hi, SeeQuestion})
    \cup Envs(FewCommentLists, {TextOf(p) : p \in LlmPieces})
MainEnvs == Envs(FewCommentLists, {Hi})

\* A resolved context of n messages, oldest first, user and bot alternating.
CtxOfLen(n) == [i \in 1..n |-> [username |-> IF i % 2 = 0 THEN "bot" ELSE "alice",
                                text |-> <<"m">>]]

max_tweets_above_threshold == CONTINUATION_THRESHOLD + 1

\* max_tweets=5 in the call of main
HISTORY_MAX_TWEETS == 5

TweetIds == {<<"1">>, <<"2">>}
Tweets == {[id |-> i, text |-> Hi] : i \in TweetIds}

\* ---- the token endpoint and the token file
\* A stored token object as the code writes it; "scope" is a field of the
\* response that granted it.
StoredToken(expires_at, with_refresh_token) ==
    LET base == ("access_token" :> "A1") @@ ("expires_at" :> expires_at) @@ ("scope" :> "s1")
    IN  IF with_refresh_token THEN Put(base, "refresh_token", "R1") ELSE base

Answer(raise, body) == [raise |-> raise, body |-> body]
Granted ==
    Answer(FALSE, ("access_token" :> "A2") @@ ("refresh_token" :> "R2")
                  @@ ("expires_in" :> 100) @@ ("token_type" :> "bearer"))
GrantedNoRefreshToken ==
    Answer(FALSE, ("access_token" :> "A3") @@ ("expires_in" :> 7200))
Rejected == Answer(FALSE, ("error" :> "invalid_request"))
Unreachable == Answer(TRUE, EmptyDict)
TokenAnswers == {Granted, GrantedNoRefreshToken, Rejected, Unreachable}

\* POLLING_INTERVAL_SECONDS = int(os.getenv('POLLING_INTERVAL_SECONDS', 60))
POLLING_INTERVAL_SECONDS == 60

\* ---- the answers to the three requests of fetch_conversation_history
HistIds == {"1", "2", "3", "4"}
Times == 1..3
HistTweets == [id : HistIds, created_at : Times, author_id : {"u1"}, text : {"m"}]
HistUsers == ("u1" :> "alice") @@ ("u2" :> "carol")

\* the search endpoint lists a matching tweet once
DistinctIds(tweets) == \A i, j \in DOMAIN tweets : i # j => tweets[i].id # tweets[j].id

Upstream(raise_at, lookup_status, conversation_id, conversation_status, filtered_status, tweets) ==
    [raise_at |-> raise_at, lookup_status |-> lookup_status,
     conversation_id |-> conversation_id, conversation_status |-> conversation_status,
     filtered_status |-> filtered_status, tweets |-> tweets, users |-> HistUsers]

HistUpstreams(n) ==
    {Upstream(0, 200, "c1", 200, 200, t) : t \in {x \in SeqsUpTo(HistTweets, n) : DistinctIds(x)}}
    \cup {Upstream(k, 200, "c1", 200, 200, <<>>) : k \in 1..3}
    \cup {Upstream(0, 404, "c1", 200, 200, <<>>), Upstream(0, 200, NoneStr, 200, 200, <<>>),
          Upstream(0, 200, "c1", 429, 200, <<>>), Upstream(0, 200, "c1", 200, 429, <<>>)}

\* ---- texts handed to the text functions of main.py
\* a text from an indent, an opening, a separator and a remainder
MentionTexts ==
    {indent \o opening \o sep \o rest :
        indent \in {<<>>, <<" ">>},
        opening \in {<<>>, <<"@", "b", "o", "b">>, <<"@", "b", "_", "2">>, <<"@">>,
                     <<"@", "b", "o", "!">>},
        sep \in {<<>>, <<" ">>, <<" ", " ">>, <<NL>>},
        rest \in {<<>>, <<"h", "e", "l", "l", "o", " ", "t", "h", "e", "r", "e">>,
                  <<"h", "i", " ", "@", "b", "o", "b", " ", "o", "k">>,
                  <<"@", "a", "l", " ", "o", "k">>}}

\* texts of a length around TWITTER_CHAR_LIMIT, bare and behind a mention
LongTexts ==
    {opening \o [i \in 1..n |-> "x"] :
        opening \in {<<>>, <<"@", "b", " ">>},
        n \in (TWITTER_CHAR_LIMIT - MaxExcess)..(TWITTER_CHAR_LIMIT + MaxExcess)}

\* ---- the conversations the poll loop meets
\* A thread as the search lists it, newest first: the current tweet of
\* author_id, below it k earlier tweets whose authors are listed in earlier,
\* oldest first.
Thread(tweet_id, author_id, earlier) ==
    LET k == Len(earlier)
        digit == <<"1", "2", "3", "4", "5", "6", "7", "8", "9">>
        ThreadTweet(id, created_at, a) ==
            [id |-> id, created_at |-> created_at, author_id |-> a, text |-> "m"]
    IN  [i \in 1..(k + 1) |->
            IF i = 1 THEN ThreadTweet(tweet_id, k + 1, author_id)
            ELSE ThreadTweet(<<"7", digit[k + 2 - i]>>, k + 2 - i, earlier[k + 2 - i])]

\* The original poster writing on in their own thread, up to one tweet more
\* than main asks for, and a thread in which another user answered twice.
Threads(tweet_id) ==
    {Thread(tweet_id, "u1", [i \in 1..k |-> "u1"]) : k \in 0..(HISTORY_MAX_TWEETS + 1)}
    \cup {Thread(tweet_id, "u2", <<"u1", "u2">>)}

\* what the three requests answer to a call of main
MainUpstreams(tweet_id) ==
    {Upstream(0, 200, "c1", 200, 200, t) : t \in Threads(tweet_id)}
    \cup {Upstream(k, 200, "c1", 200, 200, Thread(tweet_id, "u1", <<>>)) : k \in 1..3}
    \cup {Upstream(0, 404, "c1", 200, 200, <<>>), Upstream(0, 200, NoneStr, 200, 200, <<>>),
          Upstream(0, 200, "c1", 429, 200, <<>>),
          Upstream(0, 200, "c1", 200, 429, Thread(tweet_id, "u1", <<>>))}

\* ------------------------------------------------------------------- state
VARIABLES
    pc,                    \* position of main
    cycle,                 \* number of the current polling cycle
    crashes,               \* process restarts so far
    replied_file,          \* replied_tweets.txt
    target_file,           \* TARGET_TWEET_IDS_FILE
    replied_tweet_ids,     \* the in-memory skip-set of the cycle
    query,                 \* the search query of the cycle
    recent_tweets,         \* the search result of the cycle
    idx,                   \* position of the for loop in recent_tweets
    conversation_history,  \* context of the current candidate
    reply_text,            \* what generate_reply returned for the candidate
    events,                \* what main did for the current candidate, in order
    posted,                \* per id, number of posts answered with HTTP 201
    unrecorded,            \* per id, what kept an accepted post out of the ledger
    failed,                \* ids of the candidates that went without a reply,
                           \* followed where the retries are studied
    token_file,            \* TOKEN_FILE
    access_token,          \* what get_valid_token returned in this cycle
    auth_log,              \* what get_valid_token did in this cycle
    clock,                 \* int(time.time())
    slept,                 \* calls of time.sleep in this cycle
    g_pc, g_ctx, g_pid, g_out,          \* a direct call of generate_reply
    truncated_reply,       \* the text main hands to reply_to_tweet
    t_pc, t_in, t_out,     \* a direct call of the text functions of main.py
    h_pc, h_upstream, h_id, h_max, h_author, h_out
                           \* a call of fetch_conversation_history: made directly,
                           \* or the one main made for the current candidate

files == <<replied_file, target_file>>
config == <<TARGET_USERNAME, DEFAULT_PROJECT_ID>>
locals == <<replied_tweet_ids, query, recent_tweets, idx, conversation_history, reply_text,
            truncated_reply>>
genVars == <<g_pc, g_ctx, g_pid, g_out>>
textVars == <<t_pc, t_in, t_out>>
histVars == <<h_pc, h_upstream, h_id, h_max, h_author, h_out>>
tokenVars == <<token_file, access_token, auth_log>>
timeVars == <<clock, slept>>
vars == <<pc, cycle, crashes, files, config, locals, events, posted, unrecorded, failed, genVars, histVars,
          tokenVars, timeVars, textVars>>

Ev(op, k, id, res) == [op |-> op, k |-> k, id |-> id, res |-> res]
NoId == <<>>

InitialRepliedFiles == {
    NoFile,
    [exists |-> TRUE, lines |-> <<>>],
    [exists |-> TRUE, lines |-> RepliedHeader \o << <<"1", NL>> >>] }

InitialTargetFiles == {
    NoFile,
    [exists |-> TRUE, lines |-> TargetHeader \o << <<"9", NL>> >>] }

GenIdle ==
    /\ g_pc = "idle" /\ g_ctx = <<>> /\ g_pid = NoneStr
    /\ g_out = Result(None, FALSE, <<>>)

HistIdle ==
    /\ h_pc = "idle" /\ h_upstream = Upstream(0, 200, "c1", 200, 200, <<>>)
    /\ h_id = "1" /\ h_max = HISTORY_MAX_TWEETS /\ h_author = NoneStr
    /\ h_out = HistResult(<<>>, FALSE, 0, <<>>)

TextOut(cleaned_reply, truncated, chat_cleaned) ==
    [cleaned_reply |-> cleaned_reply, truncated_reply |-> truncated,
     chat_cleaned |-> chat_cleaned]

TextIdle == t_pc = "idle" /\ t_in = None /\ t_out = TextOut(None, None, None)

\* get_valid_token not yet called in this cycle
NoAuth == [calls |-> <<>>, branch |-> "none", raised |-> FALSE]

\* a stored token that stays valid for all the cycles explored
InitialTokenFiles == {TokenFileOf(StoredToken(7200, TRUE))}

\* stored tokens around the limit of validity at time 100, and none
AuthTokenFiles ==
    {NoTokenFile, TokenFileOf(StoredToken(159, FALSE))}
    \cup {TokenFileOf(StoredToken(e, TRUE)) : e \in {159, 160, 161}}

LocalsInit ==
    /\ replied_tweet_ids = {} /\ query = <<>> /\ recent_tweets = <<>> /\ idx = 0
    /\ conversation_history = <<>> /\ reply_text = None /\ truncated_reply = None

NotFollowed == [followed |-> FALSE, ids |-> {}]

\* the candidate tweet_id went without a reply
Failed(tweet_id) ==
    IF failed.followed THEN [failed EXCEPT !.ids = @ \cup {tweet_id}] ELSE failed

\* the candidate tweet_id was answered and recorded
Answered(tweet_id) ==
    IF failed.followed THEN [failed EXCEPT !.ids = @ \ {tweet_id}] ELSE failed

MainInit(follow_failed) ==
    /\ pc = "start" /\ cycle = 1 /\ crashes = 0
    /\ replied_file \in InitialRepliedFiles
    /\ target_file \in InitialTargetFiles
    /\ TARGET_USERNAME \in {NoneStr, "bot"}
    /\ DEFAULT_PROJECT_ID \in {NoneStr, "p1"}
    /\ LocalsInit
    /\ events = <<>>
    /\ posted = [i \in TweetIds |-> 0]
    /\ unrecorded = [i \in TweetIds |-> "nothing"]
    /\ failed = [followed |-> follow_failed, ids |-> {}]
    /\ token_file \in InitialTokenFiles /\ clock = 0
    /\ access_token = NoneStr /\ auth_log = NoAuth /\ slept = 0
    /\ GenIdle /\ HistIdle /\ TextIdle

Init == MainInit(FALSE)

\* ---------------------------------------------------------------- main.py
\* lines 83-87: the two files are created when missing
Startup ==
    /\ pc = "start"
    /\ target_file' = create_empty_target_file_if_not_exists(target_file)
    /\ replied_file' = create_replied_tweets_file_if_not_exists(replied_file)
    /\ pc' = "get_token"
    /\ UNCHANGED <<cycle, crashes, config, locals, events, posted, unrecorded, failed, genVars, histVars, tokenVars, timeVars, textVars>>

except_terminates(op) ==
    /\ pc' = "terminated"
    /\ events' = Append(events, Ev("except", idx, NoId, op))

\* except Exception as e: print(...), then the sleep of line 168
Except(op) ==
    /\ pc' = "sleep"
    /\ events' = Append(events, Ev("except", idx, NoId, op))

\* line 93: access_token = get_valid_token(); it returns a token or raises,
\* be it on reading TOKEN_FILE or on the answer of the token endpoint
GetToken ==
    /\ pc = "get_token"
    /\ \/ \E answer \in TokenAnswers :
             LET r == get_valid_token(token_file, clock, answer)
             IN  /\ token_file' = r.file
                 /\ auth_log' = [calls |-> r.calls, branch |-> r.branch, raised |-> r.raised]
                 /\ IF r.raised
                    THEN Except("get_valid_token") /\ UNCHANGED access_token
                    ELSE access_token' = r.ret /\ pc' = "read_files" /\ UNCHANGED events
       \/ /\ Except("get_valid_token")
          /\ auth_log' = [calls |-> <<>>, branch |-> "load_token", raised |-> TRUE]
          /\ UNCHANGED <<token_file, access_token>>
    /\ UNCHANGED <<cycle, crashes, files, config, locals, posted, unrecorded, failed, genVars, histVars, timeVars, textVars>>

\* lines 96-107: read both files, build the query, leave when it is empty
ReadFiles ==
    /\ pc = "read_files"
    /\ \/ /\ replied_tweet_ids' = read_replied_tweet_ids(replied_file)
          /\ query' = build_search_query(TARGET_USERNAME, read_target_tweet_ids(target_file))
          /\ pc' = IF query' = <<>> THEN "sleep_empty" ELSE "fetch_recent"
          /\ UNCHANGED events
       \/ /\ Except("read")
          /\ UNCHANGED <<replied_tweet_ids, query>>
    /\ UNCHANGED <<cycle, crashes, files, config, recent_tweets, idx, conversation_history,
                   reply_text, truncated_reply, posted, unrecorded, failed, genVars, histVars, tokenVars, timeVars, textVars>>

\* line 110: fetch_recent_tweets returns the data list ([] on a non-200 answer) or raises
FetchRecent ==
    /\ pc = "fetch_recent"
    /\ \/ /\ \E r \in SeqsUpTo(Tweets, MaxTweets) : recent_tweets' = r
          /\ idx' = 1
          /\ pc' = "for_tweet"
          /\ UNCHANGED events
       \/ /\ Except("fetch_recent_tweets")
          /\ UNCHANGED <<recent_tweets, idx>>
    /\ UNCHANGED <<cycle, crashes, files, config, replied_tweet_ids, query,
                   conversation_history, reply_text, truncated_reply, posted, unrecorded, failed, genVars, histVars, tokenVars, timeVars, textVars>>

\* the for loop moves to the next tweet; the locals of the body are dead and
\* the same candidate is taken up once more
same_tweet_again ==
    /\ idx' = idx
    /\ pc' = "for_tweet"
    /\ conversation_history' = <<>>
    /\ reply_text' = None /\ truncated_reply' = None
    /\ events' = <<>>

\* the log starts again for the next candidate
NextTweet ==
    /\ idx' = idx + 1
    /\ pc' = "for_tweet"
    /\ conversation_history' = <<>>
    /\ reply_text' = None /\ truncated_reply' = None
    /\ events' = <<>>

already_replied_never(tweet_id, ids) == FALSE

\* line 120: if tweet_id in replied_tweet_ids
already_replied(tweet_id, ids) == tweet_id \in ids

\* lines 113-122: loop head and skip check
ForTweet ==
    /\ pc = "for_tweet"
    /\ IF idx > Len(recent_tweets)
       THEN pc' = "sleep" /\ UNCHANGED <<idx, events, conversation_history, reply_text, truncated_reply>>
       ELSE LET tweet_id == recent_tweets[idx].id
            IN  IF already_replied(tweet_id, replied_tweet_ids)
                THEN NextTweet
                ELSE /\ events' = Append(events, Ev("check", idx, tweet_id, "absent"))
                     /\ pc' = "fetch_history"
                     /\ UNCHANGED <<idx, conversation_history, reply_text, truncated_reply>>
    /\ UNCHANGED <<cycle, crashes, files, config, replied_tweet_ids, query, recent_tweets,
                   posted, unrecorded, failed, genVars, histVars, tokenVars, timeVars, textVars>>

\* the call of fetch_conversation_history is over and its record dropped
\* what first kept an accepted reply to tweet_id out of the ledger
Unrecorded(tweet_id, cause) ==
    [unrecorded EXCEPT ![tweet_id] = IF @ = "nothing" THEN cause ELSE @]

HistForgotten ==
    /\ h_pc' = "idle" /\ h_upstream' = Upstream(0, 200, "c1", 200, 200, <<>>)
    /\ h_id' = "1" /\ h_max' = HISTORY_MAX_TWEETS /\ h_author' = NoneStr
    /\ h_out' = HistResult(<<>>, FALSE, 0, <<>>)

\* lines 125-138: fetch_conversation_history(access_token, tweet_id,
\* max_tweets=5), tweet_author_id left at its default; [] when it raised
FetchHistory ==
    /\ pc = "fetch_history"
    /\ LET tweet_id == recent_tweets[idx].id
       IN  \E upstream \in MainUpstreams(tweet_id) :
              LET r == fetch_conversation_history(upstream, tweet_id, HISTORY_MAX_TWEETS,
                                                  NoneStr)
              IN  /\ h_pc' = "called" /\ h_upstream' = upstream /\ h_id' = tweet_id
                  /\ h_max' = HISTORY_MAX_TWEETS /\ h_author' = NoneStr /\ h_out' = r
                  /\ conversation_history' = IF r.raised THEN <<>> ELSE r.ret
                  /\ events' = Append(events, Ev("resolve", idx, tweet_id,
                                                 IF r.raised THEN "raise" ELSE "ok"))
    /\ pc' = "generate"
    /\ UNCHANGED <<cycle, crashes, files, config, replied_tweet_ids, query, recent_tweets,
                   idx, reply_text, truncated_reply, posted, unrecorded, failed, genVars, tokenVars, timeVars, textVars>>

\* line 141: reply_text = generate_reply(user_text, conversation_history, DEFAULT_PROJECT_ID)
GenerateWith(envs) ==
    /\ pc = "generate"
    /\ \E out \in {[ret |-> r.ret, raised |-> r.raised] :
                     r \in {generate_reply(recent_tweets[idx].text, conversation_history,
                                           DEFAULT_PROJECT_ID, env) : env \in envs}} :
          LET tweet_id == recent_tweets[idx].id
          IN  IF out.raised
              THEN /\ pc' = "sleep"
                   /\ events' = events \o <<Ev("generate", idx, tweet_id, "raise"),
                                            Ev("except", idx, NoId, "generate_reply")>>
                   /\ UNCHANGED <<conversation_history, reply_text, truncated_reply>>
              ELSE /\ reply_text' = out.ret
                   /\ UNCHANGED truncated_reply
                   /\ events' = Append(events, Ev("generate", idx, tweet_id,
                                                  IF out.ret = None THEN "None" ELSE "text"))
                   /\ pc' = "check_reply"
                   /\ conversation_history' = <<>>     \* not read after line 141
    /\ HistForgotten
    /\ UNCHANGED <<cycle, crashes, files, config, replied_tweet_ids, query, recent_tweets,
                   idx, posted, unrecorded, failed, genVars, tokenVars, timeVars, textVars>>

Generate == GenerateWith(MainEnvs)

should_post_always(text) == TRUE

\* line 144: if reply_text is not None
should_post(text) == text # None

prepare_reply_truncating_first(text) ==
    remove_mention_prefix(truncate_reply_if_needed(text))

\* lines 146-149: cleaned_reply, then truncated_reply
prepare_reply(text) ==
    LET cleaned_reply == remove_mention_prefix(text)
    IN  truncate_reply_if_needed(cleaned_reply)

\* lines 144-149 and 160-161: prepare the text to post, or skip the reply
CheckReply ==
    /\ pc = "check_reply"
    /\ IF should_post(reply_text)
       THEN /\ truncated_reply' = prepare_reply(reply_text)
            /\ pc' = "post"
            /\ UNCHANGED <<idx, conversation_history, reply_text, events, failed>>
       ELSE /\ NextTweet
            /\ failed' = Failed(recent_tweets[idx].id)
    /\ UNCHANGED <<cycle, crashes, files, config, replied_tweet_ids, query, recent_tweets,
                   posted, unrecorded, genVars, histVars, tokenVars, timeVars, textVars>>

record_always(reply_success) == TRUE

\* line 156: if reply_success
should_record(reply_success) == reply_success

\* lines 152-156: reply_to_tweet answers 201, another status, or raises
Post ==
    /\ pc = "post"
    /\ UNCHANGED unrecorded
    /\ LET tweet_id == recent_tweets[idx].id
       IN  \/ \E status_code \in {201, 403} :
                 /\ posted' = IF status_code = 201
                              THEN [posted EXCEPT ![tweet_id] = @ + 1] ELSE posted
                 /\ failed' = IF reply_to_tweet(status_code) THEN failed
                                                              ELSE Failed(tweet_id)
                 /\ IF should_record(reply_to_tweet(status_code))
                    THEN /\ pc' = "record"
                         /\ events' = Append(events, Ev("post", idx, tweet_id,
                                 IF reply_to_tweet(status_code) THEN "ok" ELSE "fail"))
                         /\ UNCHANGED <<idx, conversation_history, reply_text, truncated_reply>>
                    ELSE NextTweet
           \/ /\ events' = events \o <<Ev("post", idx, tweet_id, "raise"),
                                       Ev("except", idx, NoId, "reply_to_tweet")>>
              /\ pc' = "sleep"
              /\ failed' = Failed(tweet_id)
              /\ UNCHANGED <<posted, idx, conversation_history, reply_text, truncated_reply>>
    /\ UNCHANGED <<cycle, crashes, files, config, replied_tweet_ids, query, recent_tweets,
                   genVars, histVars, tokenVars, timeVars, textVars>>

skip_set_unchanged(ids, tweet_id) == ids

\* line 158: replied_tweet_ids.add(tweet_id)
skip_set_add(ids, tweet_id) == ids \cup {tweet_id}

\* lines 157-159: append to the ledger and to the skip-set; the append may
\* raise before or after the file was (re)created, and then writes no id
Record ==
    /\ pc = "record"
    /\ LET tweet_id == recent_tweets[idx].id
       IN  \/ /\ replied_file' = add_replied_tweet_id(replied_file, tweet_id)
              /\ replied_tweet_ids' = skip_set_add(replied_tweet_ids, tweet_id)
              /\ NextTweet
              /\ failed' = Answered(tweet_id)
              /\ UNCHANGED unrecorded
           \/ /\ replied_file' \in {replied_file,
                                    create_replied_tweets_file_if_not_exists(replied_file)}
              /\ unrecorded' = Unrecorded(tweet_id, "add_replied_tweet_id raised")
              /\ events' = events \o <<Ev("record", idx, tweet_id, "raise"),
                                       Ev("except", idx, NoId, "add_replied_tweet_id")>>
              /\ pc' = "sleep"
              /\ UNCHANGED <<replied_tweet_ids, idx, conversation_history, reply_text,
                             truncated_reply, failed>>
    /\ UNCHANGED <<cycle, crashes, target_file, config, query, recent_tweets, posted, genVars, histVars, tokenVars, timeVars, textVars>>

\* time.sleep(POLLING_INTERVAL_SECONDS); the locals of the cycle are dead
time_sleep ==
    /\ slept' = slept + 1
    /\ clock' = clock + POLLING_INTERVAL_SECONDS
    /\ replied_tweet_ids' = {} /\ query' = <<>> /\ recent_tweets' = <<>> /\ idx' = 0
    /\ conversation_history' = <<>> /\ reply_text' = None /\ truncated_reply' = None
    /\ events' = <<>>
    /\ access_token' = NoneStr /\ auth_log' = NoAuth
    /\ UNCHANGED <<cycle, crashes, files, config, posted, unrecorded, failed, token_file, genVars, histVars, textVars>>

\* a handler that goes on with the candidates left of the search result
sleep_resumes_loop ==
    IF pc = "sleep" /\ idx >= 1 /\ idx < Len(recent_tweets)
    THEN /\ NextTweet
         /\ UNCHANGED <<cycle, crashes, files, config, replied_tweet_ids, query,
                        recent_tweets, posted, unrecorded, failed, genVars, histVars,
                        tokenVars, timeVars, textVars>>
    ELSE pc = "sleep" /\ time_sleep /\ pc' = "while_true"

\* line 168: time.sleep at the end of the loop body
Sleep == pc = "sleep" /\ time_sleep /\ pc' = "while_true"

after_continue_falls_through == "sleep"

\* line 107: continue
after_continue == "while_true"

\* lines 106-107: time.sleep and continue when the query is empty
SleepEmptyQuery == pc = "sleep_empty" /\ time_sleep /\ pc' = after_continue

\* line 90: the next iteration of "while True"
NextCycle ==
    /\ pc = "while_true"
    /\ cycle < MaxCycles
    /\ cycle' = cycle + 1
    /\ slept' = 0
    /\ pc' = "get_token"
    /\ UNCHANGED <<crashes, files, config, locals, events, posted, unrecorded, failed, tokenVars, clock,
                   genVars, histVars, textVars>>

\* the process is killed and started again: the files are all that is kept
\* (between the return of time.sleep and the loop head no statement runs: a
\* kill there is the kill during the sleep).  A kill while reply_to_tweet
\* waits for the answer of requests.post may come after the platform has
\* accepted the reply.
Crash ==
    /\ crashes < MaxCrashes
    /\ pc \notin {"start", "while_true"}
    /\ \/ /\ pc = "post"
          /\ posted' = [posted EXCEPT ![recent_tweets[idx].id] = @ + 1]
          /\ unrecorded' = Unrecorded(recent_tweets[idx].id, "killed in reply_to_tweet")
       \/ /\ pc = "record"
          /\ unrecorded' = Unrecorded(recent_tweets[idx].id,
                                      "killed before add_replied_tweet_id")
          /\ UNCHANGED posted
       \/ /\ pc # "record"
          /\ UNCHANGED <<posted, unrecorded>>
    /\ crashes' = crashes + 1
    /\ pc' = "start"
    /\ replied_tweet_ids' = {} /\ query' = <<>> /\ recent_tweets' = <<>> /\ idx' = 0
    /\ conversation_history' = <<>> /\ reply_text' = None /\ truncated_reply' = None
    /\ events' = <<>>
    /\ access_token' = NoneStr /\ auth_log' = NoAuth /\ slept' = 0
    /\ HistForgotten
    /\ UNCHANGED <<cycle, files, config, failed, token_file, clock, genVars, textVars>>

\* the loop but for the call of generate_reply
AroundGenerate ==
    \/ Startup \/ GetToken \/ ReadFiles \/ FetchRecent \/ ForTweet \/ FetchHistory
    \/ CheckReply \/ Post \/ Record \/ Sleep \/ SleepEmptyQuery \/ NextCycle

Next == AroundGenerate \/ Generate

Spec == Init /\ [][Next]_vars

\* restarts are explored from the states with no target file, a project and
\* a ledger that is missing or holds an id
CrashInit ==
    /\ Init
    /\ target_file = NoFile
    /\ replied_file.exists => replied_file.lines # <<>>
    /\ DEFAULT_PROJECT_ID = "p1"

\* one environment for each answer of generate_reply that main tells apart:
\* a text and None
BriefEnvs ==
    [comment : {Ok("comments", <<>>)},
     stance  : {Ok("report", "stance-report")},
     project : {Ok("report", "project-report")},
     llm     : {Raised("text", None), Ok("text", Hi)}]

GenerateBrief == GenerateWith(BriefEnvs)

SpecCrash == CrashInit /\ [][AroundGenerate \/ GenerateBrief \/ Crash]_vars

\* ------------------------------------------- generate_reply called directly
\* main is not running
MainIdle ==
    /\ pc = "idle" /\ cycle = 1 /\ crashes = 0
    /\ replied_file = NoFile /\ target_file = NoFile
    /\ DEFAULT_PROJECT_ID = NoneStr
    /\ LocalsInit
    /\ events = <<>>
    /\ posted = [i \in TweetIds |-> 0]
    /\ unrecorded = [i \in TweetIds |-> "nothing"]
    /\ failed = NotFollowed
    /\ token_file = NoTokenFile /\ clock = 0
    /\ access_token = NoneStr /\ auth_log = NoAuth /\ slept = 0

GenInit ==
    /\ MainIdle /\ HistIdle /\ TextIdle
    /\ TARGET_USERNAME \in {NoneStr, "bot"}
    /\ g_pc = "ready"
    /\ g_ctx \in {CtxOfLen(n) : n \in 0..MaxCtx}
    /\ g_pid \in {NoneStr, "", "p1"}
    /\ g_out = Result(None, FALSE, <<>>)

GenCall ==
    /\ g_pc = "ready"
    /\ \E env \in GenEnvs : g_out' = generate_reply(Hi, g_ctx, g_pid, env)
    /\ g_pc' = "done"
    /\ UNCHANGED <<pc, cycle, crashes, files, config, locals, events, posted, unrecorded, failed, g_ctx, g_pid,
                   histVars, tokenVars, timeVars, textVars>>

SpecGen == GenInit /\ [][GenCall]_vars

\* ------------------------------- fetch_conversation_history called directly
HistInit ==
    /\ MainIdle /\ GenIdle /\ TextIdle
    /\ TARGET_USERNAME = "bot"
    /\ h_pc = "ready"
    /\ h_upstream \in HistUpstreams(MaxUpstream)
    /\ h_id \in {"1"}
    /\ h_max \in 1..MaxCap
    /\ h_author \in {NoneStr, "u1"}
    /\ h_out = HistResult(<<>>, FALSE, 0, <<>>)

HistCall ==
    /\ h_pc = "ready"
    /\ h_out' = fetch_conversation_history(h_upstream, h_id, h_max, h_author)
    /\ h_pc' = "done"
    /\ UNCHANGED <<pc, cycle, crashes, files, config, locals, events, posted, unrecorded, failed, genVars,
                   h_upstream, h_id, h_max, h_author, tokenVars, timeVars, textVars>>

SpecHist == HistInit /\ [][HistCall]_vars

\* ------------------------------ the text functions of main.py called directly
TextInit ==
    /\ MainIdle /\ GenIdle /\ HistIdle
    /\ TARGET_USERNAME = "bot"
    /\ t_pc = "ready"
    /\ t_in \in MentionTexts \cup LongTexts \cup {None}
    /\ t_out = TextOut(None, None, None)

\* remove_mention_prefix and truncate_reply_if_needed of main.py, and
\* remove_mention_prefix of chat_client/api.py (re.sub raises for None)
TextCall ==
    /\ t_pc = "ready"
    /\ t_out' = TextOut(remove_mention_prefix(t_in), truncate_reply_if_needed(t_in),
                        IF t_in = None THEN None
                        ELSE chat_client_remove_mention_prefix(t_in))
    /\ t_pc' = "done"
    /\ UNCHANGED <<pc, cycle, crashes, files, config, locals, events, posted, unrecorded, failed, genVars,
                   histVars, tokenVars, timeVars, t_in>>

SpecText == TextInit /\ [][TextCall]_vars

\* --------------------------------- the poll loop around the expiry of a token
AuthInit ==
    /\ pc = "start" /\ cycle = 1 /\ crashes = 0
    /\ replied_file = NoFile /\ target_file = NoFile
    /\ TARGET_USERNAME \in {NoneStr, "bot"} /\ DEFAULT_PROJECT_ID = "p1"
    /\ LocalsInit
    /\ events = <<>>
    /\ posted = [i \in TweetIds |-> 0]
    /\ unrecorded = [i \in TweetIds |-> "nothing"]
    /\ failed = NotFollowed
    /\ token_file \in AuthTokenFiles /\ clock = 100
    /\ access_token = NoneStr /\ auth_log = NoAuth /\ slept = 0
    /\ GenIdle /\ HistIdle /\ TextIdle

SpecAuth == AuthInit /\ [][Next]_vars

\* ------------------------------- the poll loop with its search query varied
\* target files of up to two ids, a repeated id among them; the two ids are
\* interchangeable, so the first one listed is "8"
QueryTargetFiles ==
    {NoFile} \cup
    {[exists |-> TRUE, lines |-> TargetHeader \o [i \in DOMAIN ids |-> <<ids[i], NL>>]] :
        ids \in {t \in SeqsUpTo({"8", "9"}, 2) : t = <<>> \/ t[1] = "8"}}

QueryInit ==
    /\ pc = "start" /\ cycle = 1 /\ crashes = 0
    /\ replied_file = NoFile
    /\ target_file \in QueryTargetFiles
    /\ TARGET_USERNAME \in {NoneStr, "", "bot"}
    /\ DEFAULT_PROJECT_ID = "p1"
    /\ LocalsInit
    /\ events = <<>>
    /\ posted = [i \in TweetIds |-> 0]
    /\ unrecorded = [i \in TweetIds |-> "nothing"]
    /\ failed = NotFollowed
    /\ token_file \in InitialTokenFiles /\ clock = 0
    /\ access_token = NoneStr /\ auth_log = NoAuth /\ slept = 0
    /\ GenIdle /\ HistIdle /\ TextIdle

SpecQuery == QueryInit /\ [][Next]_vars

\* ------------------------------------------------ the poll loop, scheduled
\* the single thread of main keeps running: a step that can be taken is taken
LiveInit ==
    /\ Init
    /\ replied_file = NoFile /\ target_file = NoFile
    /\ DEFAULT_PROJECT_ID = "p1"

SpecLive ==
    /\ LiveInit /\ [][AroundGenerate \/ GenerateBrief]_vars
    /\ WF_vars(AroundGenerate \/ GenerateBrief)

\* the loop with the failed candidates followed from one cycle to the next
RetryInit ==
    /\ MainInit(TRUE)
    /\ replied_file = NoFile /\ target_file = NoFile
    /\ DEFAULT_PROJECT_ID = "p1"

\* the loop with a completion API that answers with long texts and mentions
LongEnvs ==
    [comment : {Ok("comments", <<>>)},
     stance  : {Ok("report", "stance-report")},
     project : {Ok("report", "project-report")},
     llm     : {Raised("text", None)} \cup {Ok("text", t) : t \in {Hi} \cup LongTexts}]

GenerateLong == GenerateWith(LongEnvs)

SpecLong == LiveInit /\ [][AroundGenerate \/ GenerateLong]_vars

SpecRetry == RetryInit /\ [][Next]_vars /\ WF_vars(Record)

\* ------------------------------------------------------------------ claims
IsPrefix(s, t) == Len(s) <= Len(t) /\ SubSeq(t, 1, Len(s)) = s

HasEvent(op, res) ==
    \E i \in DOMAIN events : events[i] = Ev(op, idx, recent_tweets[idx].id, res)

\* C1: a post is attempted only for a candidate that was looked up in the
\* skip-set and found absent, and an id is appended to the ledger only by
\* the record step of a candidate whose post was answered with 201 just
\* before; a failed or missing post never leads to an append.
C1_State ==
    /\ pc \in {"post", "record"} =>
          /\ HasEvent("check", "absent")
          /\ pc = "post" => recent_tweets[idx].id \notin replied_tweet_ids
    /\ pc = "record" => HasEvent("post", "ok")

C1_Step ==
    (pc # "start" /\ replied_file'.lines # replied_file.lines) =>
        /\ pc = "record"
        /\ HasEvent("post", "ok")
        /\ replied_file'.lines = Append(replied_file.lines, recent_tweets[idx].id \o <<NL>>)

C1_Theorem == [](C1_State) /\ [][C1_Step]_vars

C1_Witness ==
    \E id \in TweetIds :
        /\ posted[id] = 1
        /\ id \in read_replied_tweet_ids(replied_file)
        /\ id \in replied_tweet_ids

\* C2 as stated: whatever happens short of a crash, no id is ever answered
\* with 201 twice.
C2_Original == \A id \in TweetIds : posted[id] <= 1

\* C2 as amended: no post is attempted for an id the ledger holds, be it
\* recorded in an earlier cycle or earlier in this one, and appending an id
\* the ledger already holds leaves the set read from it unchanged.
C2_Theorem ==
    /\ pc = "post" => recent_tweets[idx].id \notin read_replied_tweet_ids(replied_file)
    /\ \A id \in read_replied_tweet_ids(replied_file) :
          read_replied_tweet_ids(add_replied_tweet_id(replied_file, id))
              = read_replied_tweet_ids(replied_file)

C2_Witness ==
    /\ pc = "for_tweet" /\ idx = 2 /\ Len(recent_tweets) >= 2
    /\ recent_tweets[1].id = recent_tweets[2].id
    /\ posted[recent_tweets[2].id] = 1
    /\ recent_tweets[2].id \in replied_tweet_ids

\* C3: no step, a restart included, removes or rewrites a line of the
\* ledger or deletes the file: the old content is a prefix of the new.
C3_Theorem ==
    [][/\ IsPrefix(replied_file.lines, replied_file'.lines)
       /\ replied_file.exists => replied_file'.exists]_vars

C3_Witness ==
    /\ crashes = 1 /\ cycle = 1 /\ pc = "get_token"
    /\ \E id \in TweetIds : posted[id] = 1 /\ id \in read_replied_tweet_ids(replied_file)

\* ---- generate_reply
GenDone == g_pc = "done"
Calls == g_out.calls
CallsTo(api) == {i \in DOMAIN Calls : Calls[i].api = api}
AddCommentAnswered == \E i \in CallsTo("add_comment") : ~Calls[i].raised
Response == Calls[1].resp

RECURSIVE AllStances(_)
AllStances(comments) ==
    IF comments = <<>> THEN <<>> ELSE Head(comments).stances \o AllStances(Tail(comments))

RECURSIVE NonNeutral(_)
NonNeutral(stances) ==
    IF stances = <<>> THEN <<>>
    ELSE IF Head(stances).stanceId = "neutral" THEN NonNeutral(Tail(stances))
    ELSE <<Head(stances)>> \o NonNeutral(Tail(stances))

C5_Theorem ==
    (GenDone /\ AddCommentAnswered /\ NonNeutral(AllStances(Response)) # <<>>) =>
        /\ g_out.sel.has_stances
        /\ g_out.sel.question_id = NonNeutral(AllStances(Response))[1].questionId

C5_Witness ==
    /\ GenDone /\ AddCommentAnswered
    /\ Len(Response) >= 2
    /\ LET nn == NonNeutral(AllStances(Response))
       IN  /\ Len(nn) >= 2
           /\ nn[1].confidence < nn[2].confidence
           /\ nn[1].questionId # nn[2].questionId
           /\ g_out.sel.question_id = nn[1].questionId

StanceFetchedFor(q) ==
    /\ CallsTo("stance_report") # {}
    /\ \A i \in CallsTo("stance_report") : Calls[i].arg = q

\* C6 as stated: every response with a non-neutral stance leads to the
\* stance report of the selected question and never to the project report.
C6_Original ==
    (GenDone /\ AddCommentAnswered /\ NonNeutral(AllStances(Response)) # <<>>) =>
        /\ StanceFetchedFor(NonNeutral(AllStances(Response))[1].questionId)
        /\ CallsTo("project_report") = {}

\* C6 as amended: the stance report is fetched, and the project report is
\* not, when the first non-neutral stance has a non-empty question id; when
\* that id is missing or empty the project report is fetched and no stance
\* report is.
C6_Theorem ==
    (GenDone /\ AddCommentAnswered /\ NonNeutral(AllStances(Response)) # <<>>) =>
        LET q == NonNeutral(AllStances(Response))[1].questionId
        IN  IF IsFalsy(q)
            THEN CallsTo("project_report") # {} /\ CallsTo("stance_report") = {}
            ELSE StanceFetchedFor(q) /\ CallsTo("project_report") = {}

C6_Witness ==
    /\ GenDone /\ AddCommentAnswered
    /\ NonNeutral(AllStances(Response)) # <<>>
    /\ NonNeutral(AllStances(Response))[1].questionId = "q2"
    /\ StanceFetchedFor("q2")
    /\ g_out.ret # None

\* C7: a response without comments, or whose stances are all neutral,
\* leads to the project report and never to a stance report.
C7_Theorem ==
    (GenDone /\ AddCommentAnswered /\ NonNeutral(AllStances(Response)) = <<>>) =>
        /\ CallsTo("project_report") # {}
        /\ CallsTo("stance_report") = {}

C7_Witness ==
    /\ GenDone /\ AddCommentAnswered
    /\ AllStances(Response) # <<>>
    /\ NonNeutral(AllStances(Response)) = <<>>
    /\ CallsTo("project_report") # {}
    /\ g_out.ret # None

\* C8: one call makes at most one completion request, never fetches both
\* reports, and a text is returned only after exactly one such request.
C8_Theorem ==
    GenDone =>
        /\ Cardinality(CallsTo("completion")) <= 1
        /\ ~(CallsTo("stance_report") # {} /\ CallsTo("project_report") # {})
        /\ g_out.ret # None => Cardinality(CallsTo("completion")) = 1

C8_Witness ==
    /\ GenDone /\ g_out.ret # None
    /\ \E i \in CallsTo("completion") : Calls[i].arg = "stance"

\* C9 as stated: no exception leaves generate_reply; a failing upstream
\* call makes it return None.
C9_Original == GenDone => (~g_out.raised /\ ((\E i \in DOMAIN Calls : Calls[i].raised) => g_out.ret = None))

\* C10: a candidate for which generate_reply returned None is not posted to
\* and not recorded: the loop goes to the next candidate with the ledger,
\* the skip-set and the posts as they were.
C10_State == pc \in {"post", "record"} => reply_text # None

C10_Step ==
    (pc = "check_reply" /\ reply_text = None) =>
        /\ pc' = "for_tweet" /\ idx' = idx + 1
        /\ UNCHANGED <<replied_file, replied_tweet_ids, posted>>

C10_Theorem == [](C10_State) /\ [][C10_Step]_vars

C10_Witness == pc = "check_reply" /\ reply_text = None /\ idx < Len(recent_tweets)

\* ---- the poll loop: exceptions and sleeping
CaughtByLoop(evs) == evs # <<>> /\ evs[Len(evs)].op = "except"

\* C11: the step in which the handler of the loop catches an exception, from
\* whichever call of the cycle, leads to the sleep step, and whatever
\* exceptions were raised, the one of the history resolution included, every
\* cycle ends with its sleep and is followed by the next one: the loop gets
\* to the end of the last cycle explored.
C11_Step == (events' # events /\ CaughtByLoop(events')) => pc' = "sleep"

C11_Theorem ==
    /\ [][C11_Step]_vars
    /\ <>(pc = "while_true" /\ slept = 1 /\ cycle = MaxCycles)

C11_Witness ==
    /\ pc = "sleep" /\ cycle = 2
    /\ CaughtByLoop(events) /\ events[Len(events)].res = "add_replied_tweet_id"

\* C12: time.sleep is called once in every cycle and never twice: the loop
\* head is reached exactly from a state that has slept once, the sleep is
\* taken only at the end of the body or on the empty query, and a new cycle
\* starts only from there.
C12_State == slept <= 1 /\ (pc = "while_true" <=> slept = 1)

C12_Step ==
    /\ cycle' # cycle => (slept = 1 /\ cycle' = cycle + 1 /\ slept' = 0)
    /\ slept' > slept => (pc \in {"sleep", "sleep_empty"} /\ slept = 0 /\ pc' = "while_true")

C12_Theorem == [](C12_State) /\ [][C12_Step]_vars

C12_Witness ==
    /\ pc = "while_true" /\ slept = 1 /\ cycle = 2
    /\ \E id \in TweetIds : posted[id] = 1

\* ---- the search query
UsernameSet == TARGET_USERNAME # NoneStr /\ TARGET_USERNAME # ""
TrackedIds == read_target_tweet_ids(target_file)
ExpectedParts ==
    (IF UsernameSet THEN << <<"to:", TARGET_USERNAME>> >> ELSE <<>>)
    \o [i \in 1..Len(TrackedIds) |-> <<"in_reply_to_tweet_id:", TrackedIds[i]>>]
JoinedByOr(q, parts) ==
    /\ Len(q) = IF parts = <<>> THEN 0 ELSE 2 * Len(parts) - 1
    /\ \A i \in DOMAIN q : q[i] = IF i % 2 = 1 THEN parts[(i + 1) \div 2] ELSE OrSep
AfterQueryBuilt ==
    pc \in {"sleep_empty", "fetch_recent", "for_tweet", "fetch_history", "generate",
            "check_reply", "post", "record"}

\* C13: the query built in a cycle is "to:<username>", when a username is
\* set, followed by "in_reply_to_tweet_id:<id>" for the tracked ids in the
\* order of the list, joined by " OR "; it is empty exactly when no username
\* is set and no id is tracked, and the cycle then goes from building the
\* query to its sleep with no search result, no step for a candidate and no
\* post or ledger write.
C13_State ==
    /\ AfterQueryBuilt =>
          /\ JoinedByOr(query, ExpectedParts)
          /\ query = <<>> <=> (~UsernameSet /\ TrackedIds = <<>>)
          /\ query = <<>> <=> pc = "sleep_empty"
    /\ pc = "sleep_empty" => (recent_tweets = <<>> /\ events = <<>> /\ idx = 0)

C13_Step ==
    /\ (pc' = "sleep_empty" /\ pc # "sleep_empty") =>
          (pc = "read_files" /\ UNCHANGED <<recent_tweets, posted, replied_file>>)
    /\ pc = "sleep_empty" =>
          (pc' = "while_true" /\ slept' = slept + 1 /\ UNCHANGED <<posted, replied_file>>)

C13_Theorem == [](C13_State) /\ [][C13_Step]_vars

C13_Witness ==
    /\ pc = "sleep_empty" /\ cycle = 2
    /\ TARGET_USERNAME = "" /\ target_file.exists /\ TrackedIds = <<>>

\* ---- the order of the steps
Ops(evs) == [i \in DOMAIN evs |-> evs[i].op]
StepsInOrder == <<"check", "resolve", "generate", "post">>
StepsDoneAt(p) ==
    IF p = "fetch_history" THEN 1 ELSE IF p = "generate" THEN 2
    ELSE IF p \in {"check_reply", "post"} THEN 3 ELSE 4
Processing == pc \in {"fetch_history", "generate", "check_reply", "post", "record"}

\* C14: while a candidate is processed, the steps taken so far are the
\* skip check, the resolution, the generation and the post, in this order,
\* all for the candidate at the current position of the search result, the
\* ledger write coming last; the loop moves one position at a time and only
\* when no step of the candidate is left, the search result stays as it was
\* returned, and a candidate found in the skip-set is passed without any
\* step.
C14_State ==
    /\ Processing =>
          /\ idx \in 1..Len(recent_tweets)
          /\ \A i \in DOMAIN events :
                events[i].k = idx /\ events[i].id = recent_tweets[idx].id
          /\ Ops(events) = SubSeq(StepsInOrder, 1, StepsDoneAt(pc))
    /\ pc = "for_tweet" => events = <<>>

C14_Step ==
    /\ (idx' # idx /\ pc # "fetch_recent" /\ pc' # "while_true") =>
          (idx' = idx + 1 /\ pc' = "for_tweet" /\ events' = <<>>)
    /\ Processing => (recent_tweets' = recent_tweets \/ pc' = "while_true")
    /\ (Processing /\ pc' \in {"for_tweet", "sleep"} /\ replied_file' # replied_file) => pc = "record"
    /\ (pc = "for_tweet" /\ idx <= Len(recent_tweets)
           /\ recent_tweets[idx].id \in replied_tweet_ids) =>
          /\ pc' = "for_tweet" /\ idx' = idx + 1 /\ events' = <<>>
          /\ UNCHANGED <<posted, replied_file, replied_tweet_ids>>

C14_Theorem == [](C14_State) /\ [][C14_Step]_vars

C14_Witness ==
    /\ pc = "record" /\ idx = 2
    /\ recent_tweets[1].id # recent_tweets[2].id
    /\ posted[recent_tweets[1].id] = 1 /\ recent_tweets[1].id \in replied_tweet_ids

\* ---- the token store
\* a step of main in which get_valid_token read the token file and decided
AuthStep == pc = "get_token" /\ pc' # "get_token" /\ auth_log'.branch # "load_token"
TokenRequests == auth_log'.calls
ObtainedToken == AuthStep /\ ~auth_log'.raised /\ auth_log'.branch \in {"refresh", "initial"}

\* C15: with a stored token that expires later than 60 seconds from now,
\* get_valid_token returns the stored access token, sends nothing to the
\* token endpoint and leaves the token file as it is; with a stored token
\* that expires in 60 seconds or less it takes the refresh branch and sends
\* no request other than a refresh; without a stored token it sends the
\* authorization-code exchange of the interactive branch.
C15_Step ==
    AuthStep =>
        IF token_file.exists
        THEN IF token_file.data["expires_at"] > clock + 60
             THEN /\ auth_log'.branch = "cached" /\ ~auth_log'.raised
                  /\ access_token' = token_file.data["access_token"]
                  /\ TokenRequests = <<>>
                  /\ token_file' = token_file
             ELSE /\ auth_log'.branch = "refresh"
                  /\ \A i \in DOMAIN TokenRequests : TokenRequests[i].grant_type = "refresh_token"
                  /\ Has(token_file.data, "refresh_token") =>
                        (Len(TokenRequests) = 1
                            /\ TokenRequests[1].arg = token_file.data["refresh_token"])
        ELSE /\ auth_log'.branch = "initial"
             /\ Len(TokenRequests) = 1 /\ TokenRequests[1].grant_type = "authorization_code"

C16_Step ==
    /\ (ObtainedToken /\ auth_log'.branch = "refresh") =>
          LET resp == TokenRequests[1].answer.body
          IN  /\ token_file'.exists
              /\ Has(token_file'.data, "refresh_token")
              /\ token_file'.data["refresh_token"] =
                    IF Has(resp, "refresh_token") THEN resp["refresh_token"]
                    ELSE token_file.data["refresh_token"]
              /\ access_token' = resp["access_token"]
              /\ token_file'.data["access_token"] = access_token'
    /\ Has(token_file.data, "refresh_token") => Has(token_file'.data, "refresh_token")

C16_Theorem == [][C16_Step]_vars

C16_Witness ==
    /\ pc = "read_files" /\ cycle = 2
    /\ auth_log.branch = "refresh" /\ ~auth_log.raised
    /\ auth_log.calls[1].answer = GrantedNoRefreshToken
    /\ token_file.data["refresh_token"] = "R2"

\* C17: a step that obtains a new token, by the authorization-code exchange
\* or by a refresh, leaves a token file made of the fields of the answer,
\* expires_at computed from the time of the call, and, after a refresh, the
\* refresh token: no other field of the file it replaces is left.
C17_Step ==
    ObtainedToken =>
        LET resp == TokenRequests[1].answer.body
        IN  /\ token_file'.exists
            /\ DOMAIN token_file'.data =
                  DOMAIN resp \cup {"expires_at"}
                  \cup (IF auth_log'.branch = "refresh" THEN {"refresh_token"} ELSE {})
            /\ \A k \in DOMAIN resp : token_file'.data[k] = resp[k]
            /\ token_file'.data["expires_at"] = clock + resp["expires_in"]

C17_Theorem == [][C17_Step]_vars

C17_Witness ==
    /\ pc = "read_files" /\ clock = 100
    /\ auth_log.branch = "refresh" /\ ~auth_log.raised
    /\ DOMAIN token_file.data = {"access_token", "expires_in", "expires_at", "refresh_token"}

\* C18: when the token endpoint answers without access_token,
\* get_valid_token raises and the token file stays as it was; main goes to
\* its sleep with no search result, no step for a candidate, no post and no
\* ledger write in that cycle, and from the sleep to the loop head and the
\* token acquisition of the next cycle.
RejectedBy(log) ==
    /\ Len(log.calls) = 1
    /\ ~log.calls[1].answer.raise
    /\ ~Has(log.calls[1].answer.body, "access_token")

C18_State ==
    (auth_log.raised /\ RejectedBy(auth_log)) =>
        /\ pc = "sleep" /\ access_token = NoneStr
        /\ recent_tweets = <<>> /\ Ops(events) = <<"except">>

C18_Step ==
    /\ (AuthStep /\ RejectedBy(auth_log')) =>
          /\ auth_log'.raised /\ pc' = "sleep"
          /\ token_file' = token_file
          /\ UNCHANGED <<posted, replied_file, recent_tweets>>
    /\ (pc = "sleep" /\ RejectedBy(auth_log)) =>
          (pc' = "while_true" /\ UNCHANGED <<posted, replied_file, token_file>>)
    /\ pc = "while_true" => pc' = "get_token"

C18_Theorem == [](C18_State) /\ [][C18_Step]_vars

C18_Witness ==
    /\ pc = "sleep" /\ cycle = 2
    /\ auth_log.raised /\ RejectedBy(auth_log) /\ auth_log.branch = "refresh"
    /\ token_file.data["access_token"] = "A1"

\* ---- fetch_conversation_history
HistDone == h_pc = "done"
HistAnswered ==
    /\ h_upstream.raise_at = 0 /\ h_upstream.lookup_status = 200
    /\ ~IsFalsy(h_upstream.conversation_id)
    /\ h_upstream.conversation_status = 200 /\ h_upstream.filtered_status = 200
OtherTweets == {i \in DOMAIN h_upstream.tweets : h_upstream.tweets[i].id # h_id}
ReturnedIds == {h_out.ret[i].id : i \in DOMAIN h_out.ret}

Resolved == pc = "generate" /\ h_pc = "called"
AllAnswered == HistAnswered /\ ~h_out.raised /\ h_out.requests = 3
FilterNames(q) ==
    {q[i + 1] : i \in {j \in 1..(Len(q) - 1) : q[j] \in {"from:", " OR from:"}}}
AuthorName(t) == Get(h_upstream.users, t.author_id, "Unknown")
TweetsOfThread == {h_upstream.tweets[i] : i \in DOMAIN h_upstream.tweets}
TriggeringTweets == {t \in TweetsOfThread : t.id = h_id}
OldestTweets ==
    {t \in TweetsOfThread : \A u \in TweetsOfThread : t.created_at <= u.created_at}
ContextIds == {conversation_history[i].id : i \in DOMAIN conversation_history}

\* C21 (as stated): when main has resolved the conversation of a candidate,
\* the filtered query names the author of the triggering tweet and the
\* author of the oldest tweet of the thread, and the earlier tweets of the
\* triggering author are in the context (the thread being short enough for
\* the cap not to drop any).
C21_Original ==
    (Resolved /\ AllAnswered /\ TriggeringTweets # {}) =>
        /\ FilterNames(h_out.query) =
              {AuthorName(t) : t \in TriggeringTweets \cup OldestTweets}
        /\ Len(h_upstream.tweets) <= HISTORY_MAX_TWEETS =>
              \A t \in TweetsOfThread, c \in TriggeringTweets :
                  (t.author_id = c.author_id /\ t.id # h_id) => t.id \in ContextIds

\* C22: a request of fetch_conversation_history answered with a status other
\* than 200, or a lookup without conversation id, makes the function return
\* the empty sequence without raising; when the function raises, main goes
\* on with the empty context; in both cases the next step of main is the
\* call of generate_reply for the same candidate in the same cycle.
NoHistoryFound ==
    /\ h_upstream.raise_at = 0
    /\ \/ h_upstream.lookup_status # 200
       \/ IsFalsy(h_upstream.conversation_id)
       \/ h_upstream.conversation_status # 200
       \/ h_upstream.filtered_status # 200

C22_State ==
    Resolved =>
        /\ NoHistoryFound => (~h_out.raised /\ h_out.ret = <<>>)
        /\ (NoHistoryFound \/ h_out.raised) => conversation_history = <<>>
        /\ h_id = recent_tweets[idx].id

C22_Step ==
    /\ pc = "fetch_history" => (pc' = "generate" /\ idx' = idx /\ cycle' = cycle)
    /\ pc = "generate" =>
          /\ idx' = idx /\ cycle' = cycle
          /\ \E i \in DOMAIN events' :
                /\ events'[i].op = "generate" /\ events'[i].k = idx
                /\ events'[i].id = recent_tweets[idx].id

C22_Theorem == [](C22_State) /\ [][C22_Step]_vars

C22_Witness ==
    /\ pc = "check_reply" /\ reply_text # None
    /\ Ev("resolve", idx, recent_tweets[idx].id, "raise") \in Range(events)

\* ---- the messages sent to the completion API
\* the history turns of a message list are those of the context g_ctx, in
\* its order, tagged by author
TurnsFollowContext(messages) ==
    /\ Len(messages) = Len(g_ctx) + 2
    /\ messages[1].role = "system"
    /\ \A k \in DOMAIN g_ctx :
          /\ messages[k + 1].content = g_ctx[k].text
          /\ messages[k + 1].role =
                IF g_ctx[k].username = TARGET_USERNAME THEN "assistant" ELSE "user"
ClosingTurn(messages) == messages[Len(messages)]

\* C23 (as stated): every message list sent to the completion API holds,
\* after the system prompt, one turn per context message in order, tagged
\* "assistant" exactly for the bot's username, and ends with the triggering
\* text as a "user" turn.
C23_Original ==
    GenDone =>
        \A i \in CallsTo("completion") :
            /\ TurnsFollowContext(Calls[i].messages)
            /\ ClosingTurn(Calls[i].messages) = [role |-> "user", content |-> Hi]

\* C23 (amended): every message list sent to the completion API holds, after
\* the system prompt, one turn per context message in order, tagged
\* "assistant" exactly for the bot's username; it ends with a "user" turn
\* that is the triggering text in the two grounded strategies and the fixed
\* request to suggest continuing the discussion in the continuation strategy.
C23_Theorem ==
    GenDone =>
        \A i \in CallsTo("completion") :
            /\ TurnsFollowContext(Calls[i].messages)
            /\ ClosingTurn(Calls[i].messages) =
                  [role |-> "user",
                   content |-> IF Calls[i].arg = "continuation"
                               THEN CONTINUATION_REQUEST ELSE Hi]

C23_Witness ==
    /\ GenDone /\ TARGET_USERNAME = "bot" /\ Len(g_ctx) = 5
    /\ Calls[1].arg = "continuation"
    /\ Calls[1].messages[2].role = "user" /\ Calls[1].messages[3].role = "assistant"
    /\ ClosingTurn(Calls[1].messages).content = CONTINUATION_REQUEST

\* ---- convert_question_urls
\* a text in which every well-formed token stands rewritten and every other
\* piece stands as it was
RECURSIVE Rewritten(_)
Rewritten(pieces) ==
    IF pieces = <<>> THEN <<>>
    ELSE (IF pieces[1].kind = "token"
          THEN DELIB_ANALYTICS_URL \o SubSeq(pieces[1].text, Len(QuestionScheme) + 1,
                                             Len(pieces[1].text))
          ELSE pieces[1].text) \o Rewritten(Tail(pieces))
LastCall == Calls[Len(Calls)]

\* C24: whenever generate_reply returns a generated text, in whichever
\* strategy, that text is the answer of the completion API with every
\* question://<uuid> token replaced by the analytics URL followed by the
\* UUID, and every other piece, tokens without a well-formed UUID included,
\* left as it was; an answer without such a token is returned as it is.
C24_Theorem ==
    (GenDone /\ ~g_out.raised /\ g_out.ret # None) =>
        /\ LastCall.api = "completion" /\ ~LastCall.raised
        /\ \A p \in LlmPieces :
              LastCall.resp = TextOf(p) =>
                 /\ g_out.ret = Rewritten(p)
                 /\ (\A i \in DOMAIN p : p[i].kind # "token") => g_out.ret = LastCall.resp

C24_Witness ==
    /\ GenDone /\ Calls # <<>> /\ LastCall.api = "completion" /\ LastCall.arg = "project"
    /\ \E p \in LlmPieces : Len(p) = 5 /\ LastCall.resp = TextOf(p)
    /\ g_out.ret = DELIB_ANALYTICS_URL \o Uuid \o <<" ">>
                   \o QuestionScheme \o <<"A">> \o SubSeq(Uuid, 2, 36) \o <<" ">>
                   \o DELIB_ANALYTICS_URL \o Uuid

\* ---- the text functions of main.py
TextDone == t_pc = "done" /\ t_in # None
\* the ends n of a name that follows the "@" at position 1 of s and is
\* followed by a blank
MentionEnds(s) ==
    {n \in 2..(Len(s) - 1) : (\A k \in 2..n : IsWord(s[k])) /\ IsSpace(s[n + 1])}
NoLeadingAt(s) == lstrip(s) = <<>> \/ lstrip(s)[1] # "@"

C26_Theorem ==
    TextDone =>
        LET r == t_out.truncated_reply
        IN  /\ Len(t_in) <= 280 => r = t_in
            /\ Len(t_in) > 280 =>
                  /\ Len(r) = 280
                  /\ SubSeq(r, 1, 277) = SubSeq(t_in, 1, 277)
                  /\ SubSeq(r, 278, 280) = <<".", ".", ".">>
            /\ Len(r) <= 280
            /\ truncate_reply_if_needed(r) = r

C26_Witness ==
    /\ TextDone /\ Len(t_in) = 283 /\ t_in[1] = "x"
    /\ Len(t_out.truncated_reply) = 280
    /\ t_out.truncated_reply[277] = "x" /\ t_out.truncated_reply[278] = "."

\* ---- restarts and the ledger
Ledger == read_replied_tweet_ids(replied_file)

\* the platform holds a reply to id that the ledger does not
Exposed(id) == posted[id] >= 1 /\ id \notin Ledger

\* add_replied_tweet_id is about to be called for id
BeingRecorded(id) == pc = "record" /\ recent_tweets[idx].id = id

Killed == crashes' = crashes + 1

C27_State ==
    \A id \in TweetIds :
        /\ Exposed(id) => BeingRecorded(id) \/ unrecorded[id] # "nothing"
        /\ posted[id] >= 2 => unrecorded[id] # "nothing"
        /\ unrecorded[id] # "nothing" => posted[id] >= 1

C27_Step ==
    /\ (Killed /\ (pc = "record" \/ posted' # posted)) =>
            LET id == recent_tweets[idx].id
            IN  /\ posted'[id] >= 1 /\ id \notin read_replied_tweet_ids(replied_file')
                /\ unrecorded'[id] # "nothing"
    /\ (Killed /\ pc # "record" /\ posted' = posted) =>
            UNCHANGED <<unrecorded, replied_file>>
    /\ (pc = "for_tweet" /\ idx <= Len(recent_tweets) /\ crashes >= 1 /\ ~Killed) =>
            LET id == recent_tweets[idx].id
            IN  Exposed(id) => pc' = "fetch_history"
    /\ (pc = "post" /\ posted' # posted /\ ~Killed /\ Exposed(recent_tweets[idx].id)) =>
            posted'[recent_tweets[idx].id] >= 2

WentWithoutReply == failed.ids

\* the candidate at hand got no reply: generate_reply returned None, or
\* reply_to_tweet returned False or raised
FailsNow ==
    \/ pc = "check_reply" /\ reply_text = None
    \/ pc = "post" /\ posted' = posted

\* the append of the id just posted to is done, or it raised
RecordOver ==
    \/ /\ pc = "for_tweet" /\ idx >= 2 /\ recent_tweets[idx - 1].id \in Ledger
    \/ /\ pc = "sleep" /\ CaughtByLoop(events)
       /\ events[Len(events)].res = "add_replied_tweet_id"

C28_State ==
    \A id \in WentWithoutReply : id \notin Ledger /\ id \notin replied_tweet_ids

C28_Step ==
    /\ FailsNow =>
           /\ recent_tweets[idx].id \in WentWithoutReply'
           /\ replied_file' = replied_file
           /\ pc' = "sleep" \/ (pc' = "for_tweet" /\ idx' = idx + 1)
    /\ (pc = "for_tweet" /\ idx <= Len(recent_tweets)
            /\ recent_tweets[idx].id \in WentWithoutReply) => pc' = "fetch_history"
    /\ pc = "fetch_history" => pc' = "generate"
    /\ pc' = "generate" => pc = "fetch_history" /\ idx' = idx
    /\ pc' = "post" => pc = "check_reply" /\ idx' = idx
    /\ (pc' = "for_tweet" /\ pc # "fetch_recent") => idx' = idx + 1
    /\ \A id \in Ledger :
           id \in read_replied_tweet_ids(replied_file') /\ posted'[id] = posted[id]

HandedToReplyToTweet == pc = "post"

\* C29: the text handed to reply_to_tweet is the reply of generate_reply,
\* which is not None, with the mention removed first and the result
\* truncated, so that it is never longer than TWITTER_CHAR_LIMIT.
C29_Theorem ==
    HandedToReplyToTweet =>
        /\ reply_text # None
        /\ truncated_reply = truncate_reply_if_needed(remove_mention_prefix(reply_text))
        /\ Len(truncated_reply) <= TWITTER_CHAR_LIMIT
        /\ Len(remove_mention_prefix(reply_text)) <= TWITTER_CHAR_LIMIT
               => truncated_reply = remove_mention_prefix(reply_text)

\* a reply longer than the limit that its mention alone takes over it
C29_Witness ==
    /\ HandedToReplyToTweet
    /\ Len(reply_text) > TWITTER_CHAR_LIMIT
    /\ Len(truncated_reply) = Len(reply_text) - 3
    /\ Len(truncated_reply) < TWITTER_CHAR_LIMIT
\* ---- the size of the context in the poll loop
\* generate_reply, called on the context at hand, takes the continuation
\* strategy: its only upstream call is the completion of that strategy
TakesContinuation(env) ==
    LET r == generate_reply(recent_tweets[idx].text, conversation_history,
                            DEFAULT_PROJECT_ID, env)
    IN  r.calls # <<>> /\ r.calls[1].arg = "continuation"

ResolverReturned == IF h_out.raised THEN <<>> ELSE h_out.ret

RaisesForCandidate ==
    /\ pc \in {"generate", "post", "record"}
    /\ events' # events /\ CaughtByLoop(events')

CandidatesLeft == idx >= 1 /\ idx < Len(recent_tweets)

\* C31: an exception raised for candidate k by generate_reply, reply_to_tweet
\* or the ledger append leads to the sleep with the ids of the ledger and the
\* accepted posts as they were; from the sleep the loop goes to its head
\* only, so that no later candidate of the search result is resolved,
\* generated for, posted to or recorded before the next cycle; and in a
\* cycle a candidate whose id the ledger lacks is not skipped.
C31_Step ==
    /\ RaisesForCandidate =>
           /\ pc' = "sleep"
           /\ UNCHANGED <<idx, recent_tweets, posted, replied_tweet_ids>>
           /\ IsPrefix(replied_file.lines, replied_file'.lines)
           /\ read_replied_tweet_ids(replied_file') = Ledger
    /\ pc = "sleep" =>
           /\ pc' = "while_true" /\ recent_tweets' = <<>>
           /\ UNCHANGED <<cycle, posted, replied_file>>
    /\ pc = "while_true" => pc' = "get_token" /\ cycle' = cycle + 1
    /\ pc' \in {"fetch_history", "generate", "post", "record"} =>
           pc \in {"for_tweet", "fetch_history", "generate", "check_reply", "post"}
    /\ (pc = "for_tweet" /\ idx <= Len(recent_tweets)
            /\ recent_tweets[idx].id \notin Ledger) => pc' = "fetch_history"

C31_Theorem == [][C31_Step]_vars

\* reply_to_tweet raised for the first candidate of a search result, and
\* the candidate left is another id that the ledger lacks
C31_Witness ==
    /\ pc = "sleep" /\ idx = 1 /\ CandidatesLeft
    /\ CaughtByLoop(events) /\ events[Len(events)].res = "reply_to_tweet"
    /\ recent_tweets[2].id \notin Ledger
    /\ recent_tweets[2].id # recent_tweets[1].id
\* ---- the skip-set and the ledger
\* the lines of the ledger on disk that are neither blank nor comments,
\* without the blanks around them
LedgerLines ==
    {strip(replied_file.lines[i]) :
        i \in {j \in DOMAIN replied_file.lines :
                  LET line == strip(replied_file.lines[j])
                  IN  line # <<>> /\ line[1] # "#"}}

\* read_replied_tweet_ids has returned in this cycle
LedgerRead ==
    \/ pc \in {"sleep_empty", "fetch_recent", "for_tweet", "fetch_history", "generate",
                "check_reply", "post", "record"}
    \/ /\ pc = "sleep"
       /\ ~(CaughtByLoop(events)
               /\ events[Len(events)].res \in {"get_valid_token", "read"})

SkipsTheLedger == LedgerRead => replied_tweet_ids = LedgerLines

\* C32: every step leaves the skip-set equal to the set of id lines of the
\* ledger once read_replied_tweet_ids has returned in the cycle; the record
\* step adds the id just posted to to both and nothing else changes either; and from the
\* sleep to the next read the ledger is left alone, so that the next read
\* gives the set the cycle ended with.
C32_Step ==
    LET before == LedgerLines
        after == IF replied_file' = replied_file THEN before ELSE LedgerLines'
        tweet_id == recent_tweets[idx].id
    IN  /\ LedgerRead' => replied_tweet_ids' = after
        /\ pc = "record" =>
               \/ UNCHANGED replied_tweet_ids /\ after = before
               \/ /\ posted[tweet_id] >= 1
                  /\ replied_tweet_ids' = replied_tweet_ids \cup {tweet_id}
                  /\ after = before \cup {tweet_id}
        /\ pc # "record" => UNCHANGED replied_file \/ after = before
        /\ (LedgerRead /\ pc \notin {"record", "sleep", "sleep_empty"}) =>
               UNCHANGED replied_tweet_ids
        /\ (pc = "read_files" /\ ~CaughtByLoop(events')) => replied_tweet_ids' = before

C32_Theorem == [][C32_Step]_vars

\* the second cycle has recorded an id and skips nothing the ledger lacks:
\* one id was read back from the ledger, the other was added to both
C32_Witness ==
    /\ cycle = 2 /\ pc = "for_tweet" /\ idx = 2
    /\ \A id \in TweetIds : posted[id] = 1
    /\ replied_tweet_ids = TweetIds /\ LedgerLines = TweetIds
====
